---- MODULE Spec2Model ----
(***************************************************************************)
(* A model of rio's URL pattern matcher (rio/url_pattern.py) and of the    *)
(* session bootstrap of the app server                                     *)
(* (rio/app_server/abstract_app_server.py).                                *)
(*                                                                         *)
(* Strings are sequences of one-character strings, so that startswith,     *)
(* endswith, split, slicing, re.escape and the regular expression engine   *)
(* are computed character by character, as the Python code computes them.  *)
(***************************************************************************)
EXTENDS Integers, Sequences, FiniteSets, TLC

VARIABLES
    pattern,                \* the string handed to UrlPattern.__init__
    built,                  \* "none", "ok", "ValueError" or "re.error"
    regex,                  \* UrlPattern._regex: the compiled token sequence
    path_parameter_names,   \* UrlPattern.path_parameter_names
    matchCalled,            \* whether UrlPattern.match was called
    url,                    \* the string handed to UrlPattern.match
    matchResult             \* what that call returned

VARIABLES
    pc,                         \* where each create_session call stands
    initial_page_url,           \* create_session's initial_page_url
    base_url,                   \* sess._base_url
    active_page_url,            \* sess._active_page_url
    active_page_instances,      \* sess._active_page_instances
    active_page_url_absolute,   \* create_session's local of that name
    session_tasks,              \* tasks made by sess.create_task, not yet run
    created_tasks,              \* the kinds of the tasks sess.create_task made
    sent,                       \* the messages sent to each session's client
    session_receive_tasks,      \* the keys of server._session_receive_tasks
    serve_task,                 \* the state of each session's serve() task
    app_theme,                  \* self.app._theme
    strict_strftime,            \* whether the platform's strftime raises
                                \* ValueError for a directive it does not know
    handshake,                  \* the initial_message each call received
    sess,                       \* the fields each Session was constructed with
    formatted_date,             \* create_session's local of that name
    theme,                      \* create_session's local of that name
    applied_theme,              \* the theme sess._apply_theme was given
    attachments,                \* what is attached to each session
    hook_state,                 \* where the on_session_start handler stands
    guards_saw,                 \* what the page guards found when they ran
    closed,                     \* what Session.close did, for each session
    keep_alive                  \* the keep_alive task made for each session

VARIABLES
    target_component,   \* the attributes of LayoutSubpage's target component
    size_controls,      \* the fields of the SizeControls for the width
    switch_is_on,       \* what the grow switch shows in the browser
    ui_events,          \* the changes the switch and the input reported
    handler_calls,      \* the calls of on_grow_change and on_min_change
    dev_pc,             \* where _update_target_attribute stands
    dev_log,            \* the steps _update_target_attribute has done
    layout_explainer,   \* LayoutSubpage._layout_explainer
    create_new_raised   \* what LayoutExplainer.create_new raised last

urlVars ==
    <<pattern, built, regex, path_parameter_names, matchCalled, url,
      matchResult>>

sessionVars ==
    <<pc, initial_page_url, base_url, active_page_url, active_page_instances,
      active_page_url_absolute, session_tasks, created_tasks, sent,
      session_receive_tasks, serve_task, app_theme, strict_strftime,
      handshake, sess, formatted_date, theme, applied_theme, attachments, hook_state,
      guards_saw, closed, keep_alive>>

\* what the bootstrap of a session leaves alone
closeVars == <<closed, keep_alive>>

devVars ==
    <<target_component, size_controls, switch_is_on, ui_events,
      handler_calls, dev_pc, dev_log, layout_explainer, create_new_raised>>

vars == <<urlVars, sessionVars, devVars>>

----------------------------------------------------------------------------
(* Bounds of the checked instance *)

\* the longest pattern, in segments
MaxSegs == 2

\* the longest input path, in characters
MaxUrlLen == 4

\* how many clients connect
NumSessions == 2

\* the longest list of preferred languages a client sends
MaxLanguages == 2

\* how many changes the controls of the dev tools report
MaxEvents == 3

\* the largest number typed into the min-value input
MaxMinValue == 2

----------------------------------------------------------------------------
(* Characters and strings *)

NL == "\n"

\* the characters of the input paths that are matched
UrlAlphabet == {"a", "A", "/", ">", NL}

\* the segments patterns are assembled from
SegVocab ==
    { <<>>,
      <<"a">>,
      <<"a", "}">>,
      <<"{", "x">>,
      <<"{", "}">>,
      <<"{", "x", "}">>,
      <<"{", "y", "}">>,
      <<"{", "x", ":", "p", "a", "t", "h", "}">>,
      <<"{", "x", ">", "a", "}">> }

PathSuffix == <<":", "p", "a", "t", "h", "}">>

Http == <<"h", "t", "t", "p">>

\* str.startswith
StartsWith(s, prefix) ==
    /\ Len(s) >= Len(prefix)
    /\ SubSeq(s, 1, Len(prefix)) = prefix

\* str.endswith
EndsWith(s, suffix) ==
    /\ Len(s) >= Len(suffix)
    /\ SubSeq(s, Len(s) - Len(suffix) + 1, Len(s)) = suffix

\* c in s
Contains(s, c) == \E i \in 1..Len(s) : s[i] = c

\* str.removeprefix("/")
RemovePrefixSlash(s) ==
    IF StartsWith(s, <<"/">>) THEN SubSeq(s, 2, Len(s)) ELSE s

\* the index of the first c in s at or after i, or 0
RECURSIVE IndexFrom(_, _, _)
IndexFrom(s, c, i) ==
    IF i > Len(s) THEN 0
    ELSE IF s[i] = c THEN i
    ELSE IndexFrom(s, c, i + 1)

\* str.split("/")
RECURSIVE Split(_)
Split(s) ==
    LET j == IndexFrom(s, "/", 1) IN
    IF j = 0 THEN <<s>>
    ELSE <<SubSeq(s, 1, j - 1)>> \o Split(SubSeq(s, j + 1, Len(s)))

\* "/".join(parts)
RECURSIVE Join(_)
Join(parts) ==
    IF Len(parts) = 0 THEN <<>>
    ELSE IF Len(parts) = 1 THEN parts[1]
    ELSE parts[1] \o <<"/">> \o Join(Tail(parts))

\* the strings over an alphabet of length at most n
RECURSIVE StringsUpTo(_, _)
StringsUpTo(alphabet, n) ==
    IF n = 0 THEN {<<>>}
    ELSE LET shorter == StringsUpTo(alphabet, n - 1) IN
         shorter \cup {Append(s, c) : s \in shorter, c \in alphabet}

\* the sequences of 1..n segments of the vocabulary
RECURSIVE SegLists(_)
SegLists(n) ==
    IF n = 1 THEN {<<s>> : s \in SegVocab}
    ELSE LET shorter == SegLists(n - 1) IN
         shorter \cup {Append(l, s) : l \in {m \in shorter : Len(m) = n - 1},
                                      s \in SegVocab}

\* the pattern strings UrlPattern is constructed from
Patterns == {Join(l) : l \in SegLists(MaxSegs)}

\* the input strings match accepts: the three assertions at its head
MatchPrecondition(u) ==
    /\ ~StartsWith(u, Http)
    /\ ~StartsWith(u, <<"/">>)
    /\ ~Contains(u, "?")

Urls == {u \in StringsUpTo(UrlAlphabet, MaxUrlLen) : MatchPrecondition(u)}

----------------------------------------------------------------------------
(* re.escape, re.compile and Pattern.match, for the expressions            *)
(* _build_regex produces                                                   *)

\* the characters re.escape puts a backslash before
ReSpecialChars ==
    {"(", ")", "[", "]", "{", "}", "?", "*", "+", "-", "|", "^", "$", "\\",
     ".", "&", "~", "#", " ", "\t", NL, "\r", "\f"}

Letters ==
    {"a", "b", "c", "d", "e", "f", "g", "h", "i", "j", "k", "l", "m", "n",
     "o", "p", "q", "r", "s", "t", "u", "v", "w", "x", "y", "z",
     "A", "B", "C", "D", "E", "F", "G", "H", "I", "J", "K", "L", "M", "N",
     "O", "P", "Q", "R", "S", "T", "U", "V", "W", "X", "Y", "Z"}

Digits == {"0", "1", "2", "3", "4", "5", "6", "7", "8", "9"}

\* str.isidentifier, which the regex parser applies to a group name
IsIdentifier(name) ==
    /\ Len(name) >= 1
    /\ name[1] \in Letters \cup {"_"}
    /\ \A i \in 1..Len(name) : name[i] \in Letters \cup Digits \cup {"_"}

\* re.escape
RECURSIVE ReEscape(_)
ReEscape(s) ==
    IF Len(s) = 0 THEN <<>>
    ELSE (IF s[1] \in ReSpecialChars THEN <<"\\", s[1]>> ELSE <<s[1]>>)
         \o ReEscape(Tail(s))

ReError == [ok |-> FALSE, toks |-> <<>>]

ReTok(kind, value) == [t |-> kind, v |-> value]

RePush(tok, rest) ==
    IF rest.ok THEN [ok |-> TRUE, toks |-> <<tok>> \o rest.toks] ELSE ReError

\* the regex parser, on the text from position i on, inside `depth` open
\* groups, with the group names `names` already defined
RECURSIVE ReParse(_, _, _, _)
ReParse(text, i, depth, names) ==
    IF i > Len(text)
    THEN IF depth = 0 THEN [ok |-> TRUE, toks |-> <<>>] ELSE ReError
    ELSE
    LET c == text[i] IN
    CASE c = "\\" ->
            \* an escaped special character is that character
            IF i + 1 <= Len(text) /\ text[i + 1] \in ReSpecialChars
            THEN RePush(ReTok("lit", <<text[i + 1]>>),
                        ReParse(text, i + 2, depth, names))
            ELSE ReError
      [] c = "(" ->
            \* (?P<name> opens a named group; the name ends at the first >
            LET j == IndexFrom(text, ">", i + 4)
                name == SubSeq(text, i + 4, j - 1)
            IN  IF /\ i + 3 <= Len(text)
                   /\ SubSeq(text, i + 1, i + 3) = <<"?", "P", "<">>
                   /\ j # 0
                   /\ IsIdentifier(name)
                   /\ name \notin names
                THEN RePush(ReTok("open", name),
                            ReParse(text, j + 1, depth + 1, names \cup {name}))
                ELSE ReError
      [] c = ")" ->
            IF depth > 0
            THEN RePush(ReTok("close", <<>>),
                        ReParse(text, i + 1, depth - 1, names))
            ELSE ReError
      [] c = "[" ->
            \* the only character class produced is [^/]+
            IF /\ i + 4 <= Len(text)
               /\ SubSeq(text, i + 1, i + 4) = <<"^", "/", "]", "+">>
            THEN RePush(ReTok("notslash+", <<>>),
                        ReParse(text, i + 5, depth, names))
            ELSE ReError
      [] c = "." ->
            IF i + 1 <= Len(text) /\ text[i + 1] = "+"
            THEN RePush(ReTok("dot+", <<>>),
                        ReParse(text, i + 2, depth, names))
            ELSE ReError
      [] c \in ReSpecialChars ->
            \* no other unescaped special character is ever produced
            ReError
      [] OTHER ->
            RePush(ReTok("lit", <<c>>), ReParse(text, i + 1, depth, names))

\* re.compile
ReCompile(text) == ReParse(text, 1, 0, {})

\* [^/] matches every character but the slash, the newline included
NotSlashClassAnyCharacter(c) == TRUE

NotSlashClass(c) == c # "/"

\* . matches every character but the newline (no DOTALL flag is given)
DotClass(c) == c # NL

ReClass(kind, c) ==
    IF kind = "notslash+" THEN NotSlashClass(c) ELSE DotClass(c)

\* how many characters of u after the first pos are in the class
RECURSIVE ReRun(_, _, _)
ReRun(kind, u, pos) ==
    IF pos + 1 <= Len(u) /\ ReClass(kind, u[pos + 1])
    THEN 1 + ReRun(kind, u, pos + 1)
    ELSE 0

ReNoMatch == [ok |-> FALSE, end |-> 0, close |-> 0, groups |-> <<>>]

\* the backtracking matcher: tokens k.. of toks against u with pos characters
\* consumed. `close` is where the next group to the right closed, and groups
\* maps the names of the groups to the right to what they captured.
RECURSIVE ReMatchAt(_, _, _, _)
RECURSIVE ReGreedy(_, _, _, _, _)
ReMatchAt(toks, k, u, pos) ==
    IF k > Len(toks)
    THEN [ok |-> TRUE, end |-> pos, close |-> pos, groups |-> <<>>]
    ELSE
    LET tok == toks[k] IN
    CASE tok.t = "lit" ->
            IF pos + 1 <= Len(u) /\ u[pos + 1] = tok.v[1]
            THEN ReMatchAt(toks, k + 1, u, pos + 1)
            ELSE ReNoMatch
      [] tok.t = "open" ->
            LET r == ReMatchAt(toks, k + 1, u, pos) IN
            IF r.ok
            THEN [r EXCEPT !.groups =
                     (tok.v :> SubSeq(u, pos + 1, r.close)) @@ r.groups]
            ELSE ReNoMatch
      [] tok.t = "close" ->
            LET r == ReMatchAt(toks, k + 1, u, pos) IN
            IF r.ok THEN [r EXCEPT !.close = pos] ELSE ReNoMatch
      [] OTHER ->
            ReGreedy(toks, k, u, pos, ReRun(tok.t, u, pos))

\* a greedy +: the longest repetition first, then shorter ones, at least one
ReGreedy(toks, k, u, pos, n) ==
    IF n < 1 THEN ReNoMatch
    ELSE LET r == ReMatchAt(toks, k + 1, u, pos + n) IN
         IF r.ok THEN r ELSE ReGreedy(toks, k, u, pos, n - 1)

\* Pattern.match: anchored at the start of u, not at its end
ReMatch(toks, u) == ReMatchAt(toks, 1, u, 0)

----------------------------------------------------------------------------
(* UrlPattern *)

GroupOpen == <<"(", "?", "P", "<">>

NotSlashPlus == <<"[", "^", "/", "]", "+">>

DotPlus == <<".", "+">>

BuildError(kind) == [status |-> kind, re_segments |-> <<>>, names |-> {}]

\* a segment that does not start with { must hold neither { nor }
LiteralSegmentOnlyOpenBraceChecked(segment) == Contains(segment, "{")

LiteralSegmentInvalid(segment) ==
    Contains(segment, "{") \/ Contains(segment, "}")

\* segment[1:-6], the name in {name:path}
MultiParameterNameKeepingSuffix(segment) == SubSeq(segment, 2, Len(segment) - 1)

MultiParameterName(segment) == SubSeq(segment, 2, Len(segment) - 6)

\* segment[1:-1], the name in {name}
SingleParameterName(segment) == SubSeq(segment, 2, Len(segment) - 1)

\* the regex of a parameter: a named group around the repeated class
ParameterRegex(parameter_name, class) ==
    GroupOpen \o ReEscape(parameter_name) \o <<">">> \o class \o <<")">>

\* the loop of _build_regex over raw_segments, from segment i on
RECURSIVE BuildSegments(_, _, _, _)
BuildSegments(raw_segments, i, re_segments, names) ==
    IF i > Len(raw_segments)
    THEN [status |-> "ok", re_segments |-> re_segments, names |-> names]
    ELSE
    LET segment == raw_segments[i] IN
    IF segment = <<>> THEN BuildError("ValueError")
    ELSE IF ~StartsWith(segment, <<"{">>)
    THEN IF LiteralSegmentInvalid(segment)
         THEN BuildError("ValueError")
         ELSE BuildSegments(raw_segments, i + 1,
                            Append(re_segments, ReEscape(segment)), names)
    ELSE IF ~EndsWith(segment, <<"}">>) THEN BuildError("ValueError")
    ELSE IF EndsWith(segment, PathSuffix)
    THEN LET parameter_name == MultiParameterName(segment) IN
         BuildSegments(raw_segments, i + 1,
                       Append(re_segments,
                              ParameterRegex(parameter_name, DotPlus)),
                       names \cup {parameter_name})
    ELSE LET parameter_name == SingleParameterName(segment) IN
         BuildSegments(raw_segments, i + 1,
                       Append(re_segments,
                              ParameterRegex(parameter_name, NotSlashPlus)),
                       names \cup {parameter_name})

\* UrlPattern._build_regex without lines 33-34
BuildRegexWithoutEmptyCase(p) ==
    IF StartsWith(p, <<"/">>)
    THEN [status |-> "ValueError", regex |-> <<>>, names |-> {}]
    ELSE
    LET segs == BuildSegments(Split(p), 1, <<>>, {})
        compiled == ReCompile(Join(segs.re_segments))
    IN  IF segs.status # "ok"
        THEN [status |-> segs.status, regex |-> <<>>, names |-> {}]
        ELSE IF ~compiled.ok
        THEN [status |-> "re.error", regex |-> <<>>, names |-> {}]
        ELSE [status |-> "ok", regex |-> compiled.toks, names |-> segs.names]

\* UrlPattern._build_regex
BuildRegex(p) ==
    IF StartsWith(p, <<"/">>)
    THEN [status |-> "ValueError", regex |-> <<>>, names |-> {}]
    ELSE IF p = <<>>
    THEN [status |-> "ok", regex |-> ReCompile(<<>>).toks, names |-> {}]
    ELSE
    LET segs == BuildSegments(Split(p), 1, <<>>, {})
        compiled == ReCompile(Join(segs.re_segments))
    IN  IF segs.status # "ok"
        THEN [status |-> segs.status, regex |-> <<>>, names |-> {}]
        ELSE IF ~compiled.ok
        THEN [status |-> "re.error", regex |-> <<>>, names |-> {}]
        ELSE [status |-> "ok", regex |-> compiled.toks, names |-> segs.names]

\* UrlPattern.match
MatchFailureEmptyRemainder(re, u) ==
    LET match == ReMatch(re, u) IN
    IF ~match.ok
    THEN [matched |-> FALSE, params |-> <<>>, remaining |-> <<>>]
    ELSE [matched |-> TRUE,
          params |-> match.groups,
          remaining |-> RemovePrefixSlash(SubSeq(u, match.end + 1, Len(u)))]

Match(re, u) ==
    LET match == ReMatch(re, u) IN
    IF ~match.ok
    THEN [matched |-> FALSE, params |-> <<>>, remaining |-> u]
    ELSE [matched |-> TRUE,
          params |-> match.groups,
          remaining |-> RemovePrefixSlash(SubSeq(u, match.end + 1, Len(u)))]

----------------------------------------------------------------------------
(* The pattern object: constructed, then matched against an input *)

InitUrlPatternVars ==
    /\ pattern = <<>>
    /\ built = "none"
    /\ regex = <<>>
    /\ path_parameter_names = {}
    /\ matchCalled = FALSE
    /\ url = <<>>
    /\ matchResult = [matched |-> FALSE, params |-> <<>>, remaining |-> <<>>]

\* UrlPattern(p), for a pattern string p
Construct ==
    /\ built = "none"
    /\ \E p \in Patterns :
        LET b == BuildRegex(p) IN
        /\ pattern' = p
        /\ built' = b.status
        /\ regex' = b.regex
        /\ path_parameter_names' = b.names
    /\ UNCHANGED <<matchCalled, url, matchResult>>
    /\ UNCHANGED sessionVars
    /\ UNCHANGED devVars

\* self.match(u), on a pattern that was constructed, for an input u that
\* passes the assertions. match reads the object and leaves it as it was,
\* so one call per object is followed.
MatchUrl ==
    /\ built = "ok"
    /\ ~matchCalled
    /\ \E u \in Urls :
        /\ MatchPrecondition(u)
        /\ url' = u
        /\ matchResult' = Match(regex, u)
    /\ matchCalled' = TRUE
    /\ UNCHANGED <<pattern, built, regex, path_parameter_names>>
    /\ UNCHANGED sessionVars
    /\ UNCHANGED devVars

NextUrlPattern ==
    \/ Construct
    \/ MatchUrl

----------------------------------------------------------------------------
(* The client's handshake and the library calls create_session makes on it *)

\* the language tags a client sends: two spellings of one language, a
\* second language, and a tag that cannot be parsed
TagVocab == {"en-US", "en_us", "de", "!"}

\* the lists of at most n tags
RECURSIVE TagLists(_)
TagLists(n) ==
    IF n = 0 THEN {<<>>}
    ELSE LET shorter == TagLists(n - 1) IN
         shorter \cup {Append(l, t) : l \in {m \in shorter : Len(m) = n - 1},
                                      t \in TagVocab}

\* the separators a client sends: none, one character, two characters
DecimalSeparators == {<<>>, <<".">>, <<",">>, <<"1", "2">>}

ThousandsSeparators == {<<>>, <<",">>, <<"1", "2">>}

IsoDateFormat == <<"%", "Y", "-", "%", "m", "-", "%", "d">>

\* the date formats a client sends
DateFormats ==
    { IsoDateFormat,
      <<"%", "d", "/", "%", "m", "/", "%", "Y">>,
      <<"%", "Y">>,
      <<"%", "m", "/", "%", "d">>,
      <<"%", "Q", "%", "y", "%", "m", "%", "d">>,
      <<>> }

\* the timezone names a client sends: known ones, in two spellings, and an
\* unknown one
TimezoneNames == {"UTC", "Europe/Berlin", "europe/berlin", "Mars/Olympus"}

\* InitialClientMessage.from_defaults()
DefaultHandshake ==
    [ none |-> FALSE,
      preferred_languages |-> <<>>,
      decimal_separator |-> <<".">>,
      thousands_separator |-> <<>>,
      date_format_string |-> IsoDateFormat,
      timezone |-> "UTC",
      prefers_light_theme |-> TRUE ]

\* create_session called with initial_message = None
NoneMessage == [DefaultHandshake EXCEPT !.none = TRUE]

\* the handshakes that differ in their locale data
LocaleHandshakes ==
    [ none : {FALSE},
      preferred_languages : TagLists(MaxLanguages),
      decimal_separator : DecimalSeparators,
      thousands_separator : ThousandsSeparators,
      date_format_string : DateFormats,
      timezone : TimezoneNames,
      prefers_light_theme : {TRUE} ]

\* the handshakes that differ in the theme the client prefers
ThemeHandshakes ==
    {[DefaultHandshake EXCEPT !.prefers_light_theme = b] : b \in BOOLEAN}

\* the classes an exception of class cls is an instance of
ExceptionBases(cls) ==
    CASE cls = "LanguageTagError" -> {"LanguageTagError", "ValueError"}
      [] cls = "UnicodeEncodeError" -> {"UnicodeEncodeError", "ValueError"}
      [] cls = "UnknownTimeZoneError" ->
            {"UnknownTimeZoneError", "KeyError", "LookupError"}
      [] OTHER -> {cls}

\* except handler: whether the handler takes an exception of class cls
Catches(handler, cls) == handler \in ExceptionBases(cls)

Returned(value) == [raised |-> "none", value |-> value]

Raised(cls) == [raised |-> cls, value |-> <<>>]

\* langcodes.standardize_tag: the standard spelling of a tag, or
\* LanguageTagError for a tag that cannot be parsed
StandardizeTag(tag) ==
    CASE tag = "en-US" -> Returned("en-US")
      [] tag = "en_us" -> Returned("en-US")
      [] tag = "de" -> Returned("de")
      [] OTHER -> Raised("LanguageTagError")

\* pytz.timezone: names are looked up without regard to case; an unknown
\* name raises UnknownTimeZoneError
PytzTimezone(name) ==
    CASE name = "UTC" -> Returned("UTC")
      [] name \in {"Europe/Berlin", "europe/berlin"} ->
            Returned("Europe/Berlin")
      [] OTHER -> Raised("UnknownTimeZoneError")

\* language_info.get_week_start_day
GetWeekStartDay(language) ==
    IF language = "en-US" THEN "sunday" ELSE "monday"

\* what a directive of strftime stands for, for date(3333, 11, 22)
StrftimeDirectives == {"Y", "m", "d", "y", "%"}

StrftimeDirective(d) ==
    CASE d = "Y" -> <<"3", "3", "3", "3">>
      [] d = "m" -> <<"1", "1">>
      [] d = "d" -> <<"2", "2">>
      [] d = "y" -> <<"3", "3">>
      [] OTHER -> <<"%">>

\* date(3333, 11, 22).strftime(fmt), from position i on, `out` being the
\* output so far. What a directive the platform does not know does is up to
\* the platform: with `strict` it raises ValueError, without it the
\* directive is copied.
RECURSIVE StrftimeFrom(_, _, _, _)
StrftimeFrom(fmt, i, strict, out) ==
    IF i > Len(fmt) THEN Returned(out)
    ELSE IF fmt[i] # "%"
    THEN StrftimeFrom(fmt, i + 1, strict, Append(out, fmt[i]))
    ELSE IF i + 1 <= Len(fmt) /\ fmt[i + 1] \in StrftimeDirectives
    THEN StrftimeFrom(fmt, i + 2, strict, out \o StrftimeDirective(fmt[i + 1]))
    ELSE IF strict THEN Raised("ValueError")
    ELSE StrftimeFrom(fmt, i + 1, strict, Append(out, fmt[i]))

Strftime(fmt, strict) == StrftimeFrom(fmt, 1, strict, <<>>)

\* sub in s, for strings
ContainsString(s, sub) ==
    \E i \in 0..(Len(s) - Len(sub)) : SubSeq(s, i + 1, i + Len(sub)) = sub

----------------------------------------------------------------------------
(* The session bootstrap: AbstractAppServer.create_session *)

Sessions == 1..NumSessions

\* the URLs clients ask for and guards resolve to: a host and a path
Hosts == {"app", "ext"}

PagePaths == {"", "p"}

\* the URLs a client connects with: pages of the app
RequestUrls == [host : {"app"}, path : PagePaths]

\* the URLs route resolution can produce: guards may redirect anywhere
ResolvedUrls == [host : Hosts, path : {""}] \cup RequestUrls

\* url.with_path("").with_query("").with_fragment("")
BaseUrlOf(u) == [host |-> u.host, path |-> ""]

\* the page chain route resolution produces for a URL: the root page, and
\* the page under it that the path names
PageChainOf(u) == IF u.path = "" THEN <<"root">> ELSE <<"root", u.path>>

\* routing.check_page_guards: raises NavigationFailed, or returns the page
\* chain and the absolute URL the guards settled on
GuardOutcomes ==
    {[failed |-> TRUE, instances |-> <<>>, target |-> [host |-> "app", path |-> ""]]}
    \cup {[failed |-> FALSE, instances |-> PageChainOf(u), target |-> u] :
              u \in ResolvedUrls}

\* utils.make_url_relative raises ValueError for a URL that is not under the
\* base URL
MakeUrlRelativeRaises(base, other) == other.host # base.host

\* the state of a new Session's page chain, before any route is resolved
NewSessionPageInstances == <<>>

\* history_worker and update_url_worker, as sess.create_task receives them
HistoryWorker(target) == [kind |-> "navigate_external", target |-> target]

UpdateUrlWorker(target) == [kind |-> "replace_url", target |-> target]

\* lines 266-305, were the browser's URL replaced whatever the guards did
TasksAfterGuardsAlwaysReplacing(base, requested, resolved) ==
    (IF MakeUrlRelativeRaises(base, resolved)
     THEN {HistoryWorker(resolved)} ELSE {})
    \cup {UpdateUrlWorker(resolved)}

\* the tasks lines 266-305 of create_session create
TasksAfterGuards(base, requested, resolved) ==
    (IF MakeUrlRelativeRaises(base, resolved)
     THEN {HistoryWorker(resolved)} ELSE {})
    \cup
    (IF resolved # requested THEN {UpdateUrlWorker(resolved)} ELSE {})

\* self.app._theme: a (light, dark) pair of themes, or one theme
PairTheme == [is_tuple |-> TRUE, themes |-> <<"light", "dark">>]

SingleTheme == [is_tuple |-> FALSE, themes |-> <<"brand">>]

AppThemes == {PairTheme, SingleTheme}

\* self.app.default_attachments
DefaultAttachments == {"UserSettings", "Database"}

\* what the application's on_session_start handler attaches
HookAttachments == {"SessionStartData"}

\* an except clause for line 180 that names ValueError
TimezoneHandlerValueError == "ValueError"

\* the except clauses of lines 128, 162 and 180
LanguageHandler == "ValueError"

DateHandler == "ValueError"

TimezoneHandler == "UnknownTimeZoneError"

\* the default language in a spelling that is not the standard one
DefaultLanguageUnderscore == "en_us"

DefaultLanguage == "en-US"

\* line 131, were every language appended
LanguageAlwaysNew(language, preferred_languages) == TRUE

\* the test of line 131
LanguageIsNew(language, preferred_languages) ==
    \A i \in 1..Len(preferred_languages) : preferred_languages[i] # language

\* the loop of lines 125-132, from the i-th tag on
RECURSIVE NormalizeLoop(_, _, _)
NormalizeLoop(tags, i, preferred_languages) ==
    IF i > Len(tags) THEN Returned(preferred_languages)
    ELSE
    LET language == StandardizeTag(tags[i])
    IN  IF language.raised # "none"
        THEN IF Catches(LanguageHandler, language.raised)
             THEN NormalizeLoop(tags, i + 1, preferred_languages)
             ELSE Raised(language.raised)
        ELSE IF LanguageIsNew(language.value, preferred_languages)
        THEN NormalizeLoop(tags, i + 1,
                           Append(preferred_languages, language.value))
        ELSE NormalizeLoop(tags, i + 1, preferred_languages)

\* lines 123-135
PreferredLanguages(tags) ==
    LET looped == NormalizeLoop(tags, 1, <<>>)
    IN  IF looped.raised # "none" THEN looped
        ELSE IF Len(looped.value) = 0
        THEN Returned(Append(looped.value, DefaultLanguage))
        ELSE looped

\* line 138, were only a longer separator invalid
DecimalSeparatorTooLong(sep) == Len(sep) > 1

\* lines 138-142
DecimalSeparatorInvalid(sep) == Len(sep) # 1

DecimalSeparator(sep) == IF DecimalSeparatorInvalid(sep) THEN <<".">> ELSE sep

\* lines 144-148
ThousandsSeparatorInvalid(sep) == Len(sep) > 1

ThousandsSeparator(sep) ==
    IF ThousandsSeparatorInvalid(sep) THEN <<>> ELSE sep

\* lines 165-169, were the year not looked for
ProbeMonthAndDayIn(text) ==
    /\ ContainsString(text, <<"1", "1">>)
    /\ ContainsString(text, <<"2", "2">>)

\* lines 165-169
ProbeTokensIn(text) ==
    /\ ContainsString(text, <<"3", "3">>)
    /\ ContainsString(text, <<"1", "1">>)
    /\ ContainsString(text, <<"2", "2">>)

\* lines 158-169: date_format_string_is_valid, for what strftime did
DateFormatStringIsValid(formatted) ==
    IF formatted.raised # "none" THEN FALSE
    ELSE ProbeTokensIn(formatted.value)

\* lines 171-175
DateFormatString(fmt, formatted) ==
    IF ~DateFormatStringIsValid(formatted) THEN IsoDateFormat ELSE fmt

\* lines 178-184, were the client's name taken as it is
TimezoneAsNamed(name) == Returned(name)

\* lines 178-184
Timezone(name) ==
    LET zone == PytzTimezone(name)
    IN  IF zone.raised = "none" THEN zone
        ELSE IF Catches(TimezoneHandler, zone.raised) THEN Returned("UTC")
        ELSE Raised(zone.raised)

\* lines 189-194, with the two themes of the pair exchanged
ResolveThemeExchanged(app_theme_, prefers_light_theme) ==
    IF app_theme_.is_tuple
    THEN IF prefers_light_theme THEN app_theme_.themes[2]
         ELSE app_theme_.themes[1]
    ELSE app_theme_.themes[1]

\* lines 189-194
ResolveTheme(app_theme_, prefers_light_theme) ==
    IF app_theme_.is_tuple
    THEN IF prefers_light_theme THEN app_theme_.themes[1]
         ELSE app_theme_.themes[2]
    ELSE app_theme_.themes[1]

\* the exception lines 119-194 let through, or "none"
LocaleFailure(languages, formatted, zone) ==
    IF languages.raised # "none" THEN languages.raised
    ELSE IF formatted.raised # "none" /\ ~Catches(DateHandler, formatted.raised)
    THEN formatted.raised
    ELSE zone.raised

\* the fields of a session that create_session has not constructed
NoSession ==
    [ timezone |-> "unset",
      preferred_languages |-> <<>>,
      date_format_string |-> <<>>,
      first_day_of_week |-> "unset",
      decimal_separator |-> <<>>,
      thousands_separator |-> <<>>,
      theme |-> "unset" ]

\* the page guards have not run
GuardsNotRun == [evaluated |-> FALSE, hook |-> "not_called", attachments |-> {}]

\* what the page guards would find if they ran when the handler was called
SeenBeforeHook(hook, attached) ==
    [evaluated |-> TRUE, hook |-> hook, attachments |-> attached]

\* what the page guards find when they run after the handler returned
SeenAfterHook(hook, attached) ==
    [evaluated |-> TRUE, hook |-> "done",
     attachments |-> attached \cup HookAttachments]

InitSessionVars ==
    /\ pc = [s \in Sessions |-> "idle"]
    /\ initial_page_url = [s \in Sessions |-> [host |-> "app", path |-> ""]]
    /\ base_url = [s \in Sessions |-> [host |-> "app", path |-> ""]]
    /\ active_page_url = [s \in Sessions |-> [host |-> "app", path |-> ""]]
    /\ active_page_instances = [s \in Sessions |-> <<>>]
    /\ active_page_url_absolute =
           [s \in Sessions |-> [host |-> "app", path |-> ""]]
    /\ session_tasks = [s \in Sessions |-> {}]
    /\ created_tasks = [s \in Sessions |-> {}]
    /\ sent = [s \in Sessions |-> <<>>]
    /\ session_receive_tasks = {}
    /\ serve_task = [s \in Sessions |-> "none"]
    /\ handshake = [s \in Sessions |-> NoneMessage]
    /\ sess = [s \in Sessions |-> NoSession]
    /\ formatted_date = [s \in Sessions |-> Returned(<<>>)]
    /\ theme = [s \in Sessions |-> "unset"]
    /\ applied_theme = [s \in Sessions |-> "unset"]
    /\ attachments = [s \in Sessions |-> {}]
    /\ hook_state = [s \in Sessions |-> "not_called"]
    /\ guards_saw = [s \in Sessions |-> GuardsNotRun]
    /\ closed = [s \in Sessions |-> "open"]
    /\ keep_alive = [s \in Sessions |-> "none"]

InitSessions ==
    InitSessionVars /\ app_theme = PairTheme /\ strict_strftime = FALSE

\* create_session up to its first await: the handshake is put right, the
\* theme is chosen and the session object is constructed, with the requested
\* URL as its active page URL; or an exception leaves create_session
CreateSessionBegin(s, u, initial_message) ==
    /\ pc[s] = "idle"
    /\ LET msg == IF initial_message.none THEN DefaultHandshake
                  ELSE initial_message
           languages == PreferredLanguages(msg.preferred_languages)
           formatted == Strftime(msg.date_format_string, strict_strftime)
           zone == Timezone(msg.timezone)
           failure == LocaleFailure(languages, formatted, zone)
           chosen == ResolveTheme(app_theme, msg.prefers_light_theme)
       IN  /\ handshake' = [handshake EXCEPT ![s] = initial_message]
           /\ IF failure # "none"
              THEN /\ pc' = [pc EXCEPT ![s] = failure]
                   /\ UNCHANGED <<initial_page_url, base_url, active_page_url,
                                  active_page_instances, sess, formatted_date,
                                  theme>>
              ELSE /\ formatted_date' = [formatted_date EXCEPT ![s] = formatted]
                   /\ theme' = [theme EXCEPT ![s] = chosen]
                   /\ sess' = [sess EXCEPT ![s] =
                          [ timezone |-> zone.value,
                            preferred_languages |-> languages.value,
                            date_format_string |->
                                DateFormatString(msg.date_format_string,
                                                 formatted),
                            first_day_of_week |->
                                GetWeekStartDay(languages.value[1]),
                            decimal_separator |->
                                DecimalSeparator(msg.decimal_separator),
                            thousands_separator |->
                                ThousandsSeparator(msg.thousands_separator),
                            theme |-> chosen ]]
                   /\ initial_page_url' = [initial_page_url EXCEPT ![s] = u]
                   /\ base_url' = [base_url EXCEPT ![s] = BaseUrlOf(u)]
                   /\ active_page_url' = [active_page_url EXCEPT ![s] = u]
                   /\ active_page_instances' =
                          [active_page_instances EXCEPT
                               ![s] = NewSessionPageInstances]
                   /\ pc' = [pc EXCEPT ![s] = "load_user_settings"]
    /\ UNCHANGED <<active_page_url_absolute, session_tasks, created_tasks,
                   sent, session_receive_tasks, serve_task, app_theme,
                   strict_strftime, applied_theme, attachments, hook_state,
                   guards_saw>>
    /\ UNCHANGED urlVars
    /\ UNCHANGED devVars
    /\ UNCHANGED closeVars

\* await sess._load_user_settings returns; the default attachments are
\* attached and the on_session_start handler is called
LoadUserSettingsDone(s) ==
    /\ pc[s] = "load_user_settings"
    /\ attachments' = [attachments EXCEPT ![s] =
           {"UserSettings"} \cup (DefaultAttachments \ {"UserSettings"})]
    /\ hook_state' = [hook_state EXCEPT ![s] = "running"]
    /\ pc' = [pc EXCEPT ![s] = "on_session_start"]
    /\ UNCHANGED <<initial_page_url, base_url, active_page_url,
                   active_page_instances, active_page_url_absolute,
                   session_tasks, created_tasks, sent, session_receive_tasks,
                   serve_task, app_theme, strict_strftime, handshake, sess,
                   formatted_date, theme, applied_theme, guards_saw>>
    /\ UNCHANGED urlVars
    /\ UNCHANGED devVars
    /\ UNCHANGED closeVars

\* lines 259-309, were the active page set before the guards' outcome is
\* known
AfterGuardsActivePageFirst(s, guards) ==
    /\ active_page_instances' =
           [active_page_instances EXCEPT ![s] = guards.instances]
    /\ active_page_url' = [active_page_url EXCEPT ![s] = guards.target]
    /\ IF guards.failed
       THEN /\ pc' = [pc EXCEPT ![s] = "NavigationFailed"]
            /\ UNCHANGED <<active_page_url_absolute, session_tasks,
                           created_tasks>>
       ELSE LET tasks == TasksAfterGuards(base_url[s], initial_page_url[s],
                                          guards.target)
            IN  /\ active_page_url_absolute' =
                       [active_page_url_absolute EXCEPT ![s] = guards.target]
                /\ session_tasks' = [session_tasks EXCEPT ![s] = tasks]
                /\ created_tasks' =
                       [created_tasks EXCEPT ![s] = {t.kind : t \in tasks}]
                /\ pc' = [pc EXCEPT ![s] = "apply_theme"]

\* what lines 259-309 do to the session for an outcome of the page guards
AfterGuards(s, guards) ==
    IF guards.failed
    THEN /\ pc' = [pc EXCEPT ![s] = "NavigationFailed"]
         /\ UNCHANGED <<active_page_url, active_page_instances,
                        active_page_url_absolute, session_tasks,
                        created_tasks>>
    ELSE LET tasks == TasksAfterGuards(base_url[s], initial_page_url[s],
                                       guards.target)
         IN  /\ active_page_url_absolute' =
                    [active_page_url_absolute EXCEPT ![s] = guards.target]
             /\ session_tasks' = [session_tasks EXCEPT ![s] = tasks]
             /\ created_tasks' =
                    [created_tasks EXCEPT ![s] = {t.kind : t \in tasks}]
             /\ active_page_instances' =
                    [active_page_instances EXCEPT ![s] = guards.instances]
             /\ active_page_url' =
                    [active_page_url EXCEPT ![s] = guards.target]
             /\ pc' = [pc EXCEPT ![s] = "apply_theme"]

\* await sess._call_event_handler returns, the handler having run; the page
\* guards run; the navigation tasks are created; the active page is set; the
\* theme is being applied
OnSessionStartDone(s, guards) ==
    /\ pc[s] = "on_session_start"
    /\ hook_state' = [hook_state EXCEPT ![s] = "done"]
    /\ attachments' = [attachments EXCEPT ![s] = @ \cup HookAttachments]
    /\ guards_saw' = [guards_saw EXCEPT ![s] =
                          SeenAfterHook(hook_state[s], attachments[s])]
    /\ AfterGuards(s, guards)
    /\ UNCHANGED <<initial_page_url, base_url, sent, session_receive_tasks,
                   serve_task, app_theme, strict_strftime, handshake, sess,
                   formatted_date, theme, applied_theme>>
    /\ UNCHANGED urlVars
    /\ UNCHANGED devVars
    /\ UNCHANGED closeVars

\* the messages of the lines 312 and 315, the refresh first
FirstMessagesRefreshFirst == <<"updateComponentStates", "applyTheme">>

\* the messages of the lines 312 and 315, in the order they are sent
FirstMessages == <<"applyTheme", "updateComponentStates">>

\* await sess._apply_theme returns: the theme went to the client; the first
\* refresh starts
ApplyThemeDone(s) ==
    /\ pc[s] = "apply_theme"
    /\ sent' = [sent EXCEPT ![s] = Append(@, FirstMessages[1])]
    /\ applied_theme' = [applied_theme EXCEPT ![s] = theme[s]]
    /\ pc' = [pc EXCEPT ![s] = "refresh"]
    /\ UNCHANGED <<initial_page_url, base_url, active_page_url,
                   active_page_instances, active_page_url_absolute,
                   session_tasks, created_tasks, session_receive_tasks,
                   serve_task, app_theme, strict_strftime, handshake, sess,
                   formatted_date, theme, attachments, hook_state,
                   guards_saw>>
    /\ UNCHANGED urlVars
    /\ UNCHANGED devVars
    /\ UNCHANGED closeVars

\* await sess._refresh returns: the first updateComponentStates went to the
\* client; the serve() task is created and registered; the session is
\* returned
RefreshDone(s) ==
    /\ pc[s] = "refresh"
    /\ sent' = [sent EXCEPT ![s] = Append(@, FirstMessages[2])]
    /\ session_receive_tasks' = session_receive_tasks \cup {s}
    /\ serve_task' = [serve_task EXCEPT ![s] = "running"]
    /\ pc' = [pc EXCEPT ![s] = "returned"]
    /\ UNCHANGED <<initial_page_url, base_url, active_page_url,
                   active_page_instances, active_page_url_absolute,
                   session_tasks, created_tasks, app_theme, strict_strftime,
                   handshake, sess, formatted_date, theme, applied_theme,
                   attachments, hook_state, guards_saw>>
    /\ UNCHANGED urlVars
    /\ UNCHANGED devVars
    /\ UNCHANGED closeVars

\* the event loop runs a task sess.create_task made: its JavaScript goes to
\* the client
RunSessionTask(s, t) ==
    /\ t \in session_tasks[s]
    /\ session_tasks' = [session_tasks EXCEPT ![s] = @ \ {t}]
    /\ sent' = [sent EXCEPT ![s] = Append(@, t.kind)]
    /\ UNCHANGED <<pc, initial_page_url, base_url, active_page_url,
                   active_page_instances, active_page_url_absolute,
                   created_tasks, session_receive_tasks, serve_task,
                   app_theme, strict_strftime, handshake, sess,
                   formatted_date, theme, applied_theme, attachments,
                   hook_state, guards_saw>>
    /\ UNCHANGED urlVars
    /\ UNCHANGED devVars
    /\ UNCHANGED closeVars

\* what create_session changes
bootstrapVars ==
    <<pc, initial_page_url, base_url, active_page_url, active_page_instances,
      active_page_url_absolute, session_tasks, created_tasks, sent,
      app_theme, strict_strftime, handshake, sess, formatted_date, theme,
      applied_theme, attachments, hook_state, guards_saw>>

\* _after_session_closed, were every task of the registry stopped
AfterSessionClosedStoppingAll(s) ==
    IF s \in session_receive_tasks
    THEN /\ session_receive_tasks' = {}
         /\ serve_task' = [x \in Sessions |->
                IF x \in session_receive_tasks THEN "cancelled"
                ELSE serve_task[x]]
         /\ closed' = [closed EXCEPT ![s] = "closed"]
    ELSE /\ closed' = [closed EXCEPT ![s] = "KeyError"]
         /\ UNCHANGED <<session_receive_tasks, serve_task>>

\* _after_session_closed: the session's task is popped from the registry and
\* cancelled; dict.pop raises KeyError for a session that is not a key
AfterSessionClosed(s) ==
    IF s \in session_receive_tasks
    THEN /\ session_receive_tasks' = session_receive_tasks \ {s}
         /\ serve_task' = [serve_task EXCEPT ![s] = "cancelled"]
         /\ closed' = [closed EXCEPT ![s] = "closed"]
    ELSE /\ closed' = [closed EXCEPT ![s] = "KeyError"]
         /\ UNCHANGED <<session_receive_tasks, serve_task>>

\* Session.close() on a session that exists and was not closed before: it
\* calls _after_session_closed
Close(s) ==
    /\ pc[s] # "idle"
    /\ closed[s] = "open"
    /\ AfterSessionClosed(s)
    /\ UNCHANGED <<bootstrapVars, keep_alive>>
    /\ UNCHANGED urlVars
    /\ UNCHANGED devVars

\* host_asset_with_timeout, called for an asset of an open session: the
\* keep_alive task is created, and nothing keeps a reference to it
HostAssetWithTimeout(s) ==
    /\ pc[s] # "idle"
    /\ closed[s] = "open"
    /\ keep_alive[s] = "none"
    /\ keep_alive' = [keep_alive EXCEPT ![s] = "pending"]
    /\ UNCHANGED <<bootstrapVars, session_receive_tasks, serve_task, closed>>
    /\ UNCHANGED urlVars
    /\ UNCHANGED devVars

\* asyncio.sleep(timeout) returns in keep_alive, and the task ends
KeepAliveElapsed(s) ==
    /\ keep_alive[s] = "pending"
    /\ keep_alive' = [keep_alive EXCEPT ![s] = "done"]
    /\ UNCHANGED <<bootstrapVars, session_receive_tasks, serve_task, closed>>
    /\ UNCHANGED urlVars
    /\ UNCHANGED devVars

----------------------------------------------------------------------------
(* The layout page of the dev tools: SizeControls and LayoutSubpage *)

\* an event handler, as a component's on_change receives it: whether calling
\* it with the event runs the method it names
\* line 54: on_change=self._on_min_value_change
BoundMethod(name) == [method |-> name, runs_method |-> TRUE]

\* line 44: on_change=lambda event: self._on_grow_change, a function that
\* returns the method and does not call it
LambdaReturningMethod(name) == [method |-> name, runs_method |-> FALSE]

\* the on_change of the Switch and of the NumberInput SizeControls.build
\* makes
SwitchOnChange == LambdaReturningMethod("_on_grow_change")

NumberInputOnChange == BoundMethod("_on_min_value_change")

\* the value an event or a handler call carries: a flag or a number
FlagValue(b) == [flag |-> b, number |-> 0]

NumberValue(n) == [flag |-> FALSE, number |-> n]

MinValues == 0..MaxMinValue

\* the steps of _update_target_attribute, in the order of lines 229-236
UpdateSteps == <<"setattr", "refresh", "explain">>

\* an except clause for line 216 that names ValueError
ExplainerHandlerValueError == "ValueError"

\* the except clause of line 216
ExplainerHandler == "KeyError"

\* setattr(target, name, value)
SetAttr(component, name, value) ==
    IF name = "grow_x" THEN [component EXCEPT !.grow_x = value.flag]
    ELSE [component EXCEPT !.min_width = value.number]

\* _build_size_controls, lines 409-418: the SizeControls for the width
BuildSizeControls(component) ==
    [grow |-> component.grow_x, min_value |-> component.min_width]

InitDevToolsWith(grow_x) ==
    /\ target_component = [grow_x |-> grow_x, min_width |-> 0]
    /\ size_controls = BuildSizeControls(target_component)
    /\ switch_is_on = size_controls.grow
    /\ ui_events = <<>>
    /\ handler_calls = <<>>
    /\ dev_pc = "idle"
    /\ dev_log = <<>>
    /\ layout_explainer = "None"
    /\ create_new_raised = "none"

InitDevTools == InitDevToolsWith(FALSE)

\* _update_target_attribute(name, value) up to its first await: the
\* attribute is assigned and the refresh begins
UpdateTargetAttributeBegin(name, value) ==
    /\ target_component' = SetAttr(target_component, name, value)
    /\ dev_log' = <<UpdateSteps[1]>>
    /\ dev_pc' = "awaiting_1"

\* SizeControls._on_grow_change(event), with the on_grow_change of line 413
OnGrowChange(is_on) ==
    /\ size_controls' = [size_controls EXCEPT !.grow = is_on]
    /\ handler_calls' =
           Append(handler_calls,
                  [handler |-> "on_grow_change", value |-> FlagValue(is_on)])
    /\ UpdateTargetAttributeBegin("grow_x", FlagValue(is_on))

\* SizeControls._on_min_value_change(event), with the on_min_change of
\* line 416
OnMinValueChange(number) ==
    /\ size_controls' = [size_controls EXCEPT !.min_value = number]
    /\ handler_calls' =
           Append(handler_calls,
                  [handler |-> "on_min_change", value |-> NumberValue(number)])
    /\ UpdateTargetAttributeBegin("min_width", NumberValue(number))

\* the user flips the grow switch: the Switch calls its on_change with the
\* event, and awaits what the call returns if that can be awaited
SwitchChange ==
    /\ dev_pc = "idle"
    /\ Len(ui_events) < MaxEvents
    /\ LET is_on == ~switch_is_on
       IN  /\ switch_is_on' = is_on
           /\ ui_events' =
                  Append(ui_events,
                         [kind |-> "switch", value |-> FlagValue(is_on)])
           /\ IF SwitchOnChange.runs_method
              THEN OnGrowChange(is_on)
              ELSE UNCHANGED <<target_component, size_controls,
                               handler_calls, dev_pc, dev_log>>
    /\ UNCHANGED <<layout_explainer, create_new_raised>>
    /\ UNCHANGED <<urlVars, sessionVars>>

\* the user types a number into the min-value input
NumberInputChange ==
    /\ dev_pc = "idle"
    /\ Len(ui_events) < MaxEvents
    /\ \E number \in MinValues :
           /\ ui_events' =
                  Append(ui_events,
                         [kind |-> "number", value |-> NumberValue(number)])
           /\ IF NumberInputOnChange.runs_method
              THEN OnMinValueChange(number)
              ELSE UNCHANGED <<target_component, size_controls,
                               handler_calls, dev_pc, dev_log>>
    /\ UNCHANGED <<switch_is_on, layout_explainer, create_new_raised>>
    /\ UNCHANGED <<urlVars, sessionVars>>

\* _update_explanations: LayoutExplainer.create_new returns an explainer or
\* raises KeyError
UpdateExplanations(raised) ==
    IF raised = "none"
    THEN layout_explainer' = "LayoutExplainer" /\ dev_pc' = "idle"
    ELSE IF Catches(ExplainerHandler, raised)
    THEN layout_explainer' = "None" /\ dev_pc' = "idle"
    ELSE UNCHANGED layout_explainer /\ dev_pc' = raised

\* what _update_target_attribute awaits first has returned
FirstAwaitDone ==
    /\ dev_pc = "awaiting_1"
    /\ dev_log' = Append(dev_log, UpdateSteps[2])
    /\ dev_pc' = "awaiting_2"
    /\ UNCHANGED <<target_component, size_controls, switch_is_on,
                   ui_events, handler_calls, layout_explainer,
                   create_new_raised>>
    /\ UNCHANGED <<urlVars, sessionVars>>

\* what _update_target_attribute awaits second has returned, or has raised
SecondAwaitDone ==
    /\ dev_pc = "awaiting_2"
    /\ dev_log' = Append(dev_log, UpdateSteps[3])
    /\ \E raised \in {"none", "KeyError"} :
           /\ create_new_raised' = raised
           /\ UpdateExplanations(raised)
    /\ UNCHANGED <<target_component, size_controls, switch_is_on,
                   ui_events, handler_calls>>
    /\ UNCHANGED <<urlVars, sessionVars>>

NextDevTools ==
    \/ SwitchChange
    \/ NumberInputChange
    \/ FirstAwaitDone
    \/ SecondAwaitDone

\* clients that send no handshake connect, one after and beside the other
NextSession ==
    \/ \E s \in Sessions, u \in RequestUrls :
           CreateSessionBegin(s, u, NoneMessage)
    \/ \E s \in Sessions : LoadUserSettingsDone(s)
    \/ \E s \in Sessions, g \in GuardOutcomes : OnSessionStartDone(s, g)
    \/ \E s \in Sessions : ApplyThemeDone(s)
    \/ \E s \in Sessions : RefreshDone(s)
    \/ \E s \in Sessions, t \in UNION {session_tasks[x] : x \in Sessions} :
           RunSessionTask(s, t)

\* one client connects, with any handshake, up to the
\* resolution of its route
NextLocale ==
    \/ /\ pc[1] = "idle"
       /\ \E u \in RequestUrls, m \in LocaleHandshakes :
              CreateSessionBegin(1, u, m)
    \/ LoadUserSettingsDone(1)
    \/ \E g \in GuardOutcomes : OnSessionStartDone(1, g)

\* one client connects, with either preference, to an app with either kind
\* of theme
NextTheme ==
    \/ \E u \in RequestUrls, m \in ThemeHandshakes :
           CreateSessionBegin(1, u, m)
    \/ LoadUserSettingsDone(1)
    \/ \E g \in GuardOutcomes : OnSessionStartDone(1, g)
    \/ ApplyThemeDone(1)
    \/ RefreshDone(1)
    \/ \E t \in session_tasks[1] : RunSessionTask(1, t)

\* clients connect to pages whose guards leave the URL alone or fail; their
\* sessions host assets and are closed, at any time
NextClose ==
    \/ \E s \in Sessions, u \in RequestUrls :
           CreateSessionBegin(s, u, NoneMessage)
    \/ \E s \in Sessions : LoadUserSettingsDone(s)
    \/ \E s \in Sessions :
           \E g \in {o \in GuardOutcomes :
                        o.failed \/ o.target = initial_page_url[s]} :
               OnSessionStartDone(s, g)
    \/ \E s \in Sessions : ApplyThemeDone(s)
    \/ \E s \in Sessions : RefreshDone(s)
    \/ \E s \in Sessions : Close(s)
    \/ \E s \in Sessions : HostAssetWithTimeout(s)
    \/ \E s \in Sessions : KeepAliveElapsed(s)

Init == InitUrlPatternVars /\ InitSessions /\ InitDevTools

InitAnyTarget ==
    /\ InitUrlPatternVars
    /\ InitSessions
    /\ \E grow_x \in BOOLEAN : InitDevToolsWith(grow_x)

InitAnyTheme ==
    /\ InitUrlPatternVars
    /\ InitSessionVars
    /\ app_theme \in AppThemes
    /\ strict_strftime = FALSE
    /\ InitDevTools

InitAnyPlatform ==
    /\ InitUrlPatternVars
    /\ InitSessionVars
    /\ app_theme = PairTheme
    /\ strict_strftime \in BOOLEAN
    /\ InitDevTools

SpecUrlPattern == Init /\ [][NextUrlPattern]_vars

SpecSession == Init /\ [][NextSession]_vars

SpecLocale == InitAnyPlatform /\ [][NextLocale]_vars

SpecTheme == InitAnyTheme /\ [][NextTheme]_vars

SpecClose == Init /\ [][NextClose]_vars

SpecDevTools == InitAnyTarget /\ [][NextDevTools]_vars

----------------------------------------------------------------------------
(* Properties of UrlPattern, checked under SpecUrlPattern *)

\* the segments of the pattern, as the claims speak of them
PatSegs == Split(pattern)

UrlSegs == Split(url)

IsParamSeg(seg) == StartsWith(seg, <<"{">>) /\ EndsWith(seg, <<"}">>)

IsMultiSeg(seg) == IsParamSeg(seg) /\ EndsWith(seg, PathSuffix)

IsSingleSeg(seg) == IsParamSeg(seg) /\ ~EndsWith(seg, PathSuffix)

IsLiteralSeg(seg) ==
    seg # <<>> /\ ~Contains(seg, "{") /\ ~Contains(seg, "}")

\* what stands between the braces of a parameter segment
DeclaredName(seg) ==
    IF IsMultiSeg(seg) THEN SubSeq(seg, 2, Len(seg) - 6)
    ELSE SubSeq(seg, 2, Len(seg) - 1)

\* the key a parameter is captured under: its declared name up to the
\* first >, where the regular expression's group name ends
CaptureKey(seg) ==
    LET name == DeclaredName(seg)
        j == IndexFrom(name, ">", 1)
    IN  IF j = 0 THEN name ELSE SubSeq(name, 1, j - 1)

Matched == matchCalled /\ matchResult.matched

\* the four reasons for which the specification lets construction fail
LeadingSlash(p) == StartsWith(p, <<"/">>)

HasEmptySegment(p) ==
    p # <<>> /\ \E i \in 1..Len(Split(p)) : Split(p)[i] = <<>>

HasBraceInLiteral(p) ==
    \E i \in 1..Len(Split(p)) :
        LET seg == Split(p)[i] IN
        /\ ~StartsWith(seg, <<"{">>)
        /\ (Contains(seg, "{") \/ Contains(seg, "}"))

HasUnclosedParameter(p) ==
    \E i \in 1..Len(Split(p)) :
        LET seg == Split(p)[i] IN
        StartsWith(seg, <<"{">>) /\ ~EndsWith(seg, <<"}">>)

BreaksStatedRules(p) ==
    \/ LeadingSlash(p)
    \/ HasEmptySegment(p)
    \/ HasBraceInLiteral(p)
    \/ HasUnclosedParameter(p)

\* a parameter whose name cannot name a group of the regular expression
HasUnusableName(p) ==
    \E i \in 1..Len(Split(p)) :
        IsParamSeg(Split(p)[i]) /\ ~IsIdentifier(CaptureKey(Split(p)[i]))

\* two parameters captured under the same key
HasRepeatedName(p) ==
    \E i, j \in 1..Len(Split(p)) :
        /\ i < j
        /\ IsParamSeg(Split(p)[i])
        /\ IsParamSeg(Split(p)[j])
        /\ CaptureKey(Split(p)[i]) = CaptureKey(Split(p)[j])

HasNonFinalMulti(p) ==
    \E i \in 1..(Len(Split(p)) - 1) : IsMultiSeg(Split(p)[i])

\* C1: in a successful match, every literal segment of the pattern that is
\* preceded by no multi-capture parameter equals, character for character,
\* the input segment at the same position.
C1_LiteralSegmentExact ==
    Matched =>
        \A i \in 1..Len(PatSegs) :
            (/\ IsLiteralSeg(PatSegs[i])
             /\ \A j \in 1..(i - 1) : ~IsMultiSeg(PatSegs[j]))
            => (i <= Len(UrlSegs) /\ UrlSegs[i] = PatSegs[i])

C3_RemainderHasNoLeadingSlash ==
    Matched => ~StartsWith(matchResult.remaining, <<"/">>)

\* C4: when the regular expression does not match the input, match returns
\* matched = false, no parameters, and the input itself as the remainder.
C4_FailedMatchReturnsInput ==
    (matchCalled /\ ~ReMatch(regex, url).ok) =>
        /\ matchResult.matched = FALSE
        /\ DOMAIN matchResult.params = {}
        /\ matchResult.remaining = url

\* a failed match of a non-empty input
C4_Witness ==
    matchCalled /\ ~matchResult.matched /\ Len(url) > 1

\* C5: in a successful match the value of every single-capture parameter
\* is non-empty, holds no slash, and is one of the input's segments.
C5_SingleCaptureIsOneSegment ==
    Matched =>
        \A i \in 1..Len(PatSegs) :
            IsSingleSeg(PatSegs[i]) =>
                LET key == CaptureKey(PatSegs[i]) IN
                /\ key \in DOMAIN matchResult.params
                /\ matchResult.params[key] # <<>>
                /\ ~Contains(matchResult.params[key], "/")
                /\ \E j \in 1..Len(UrlSegs) :
                       UrlSegs[j] = matchResult.params[key]

\* a single-capture parameter matched against an input of several segments
C5_Witness ==
    /\ Matched
    /\ \E i \in 1..Len(PatSegs) : IsSingleSeg(PatSegs[i])
    /\ Len(UrlSegs) > 1

\* C6: in a successful match of a pattern whose last segment is a
\* multi-capture parameter, that parameter's value runs to the end of the
\* input and the remainder is empty.
C6_FinalMultiCaptureTakesTheRest ==
    (Matched /\ IsMultiSeg(PatSegs[Len(PatSegs)])) =>
        LET key == CaptureKey(PatSegs[Len(PatSegs)]) IN
        /\ key \in DOMAIN matchResult.params
        /\ EndsWith(url, matchResult.params[key])
        /\ matchResult.remaining = <<>>

\* C7 as stated: a pattern with a multi-capture parameter before its last
\* segment is never constructed.
C7_NonFinalMultiCaptureRejected ==
    (built # "none" /\ HasNonFinalMulti(pattern)) => built # "ok"

\* C7 amended: a multi-capture parameter before the last segment is no
\* reason for construction to fail: such a pattern is constructed unless
\* it breaks one of the four stated rules or has an unusable or repeated
\* parameter name.
C7_NonFinalMultiCaptureAccepted ==
    (built # "none" /\ HasNonFinalMulti(pattern)) =>
        (built = "ok" <=> /\ ~BreaksStatedRules(pattern)
                          /\ ~HasUnusableName(pattern)
                          /\ ~HasRepeatedName(pattern))

\* a pattern with a multi-capture parameter before its last segment that
\* was constructed and has matched an input
C7_Witness ==
    HasNonFinalMulti(pattern) /\ built = "ok" /\ Matched

\* C8: in a successful match the keys of the returned parameters are
\* exactly the pattern's path_parameter_names.
C8_ParametersAreTheDeclaredNames ==
    Matched => DOMAIN matchResult.params = path_parameter_names

\* the object was constructed from the empty string
EmptyPatternGiven == built # "none" /\ pattern = <<>>

\* C27: UrlPattern("") is constructed, with no parameter names; matching it
\* against any input that passes the assertions, the empty one included,
\* returns True, no parameters and the whole input as the remainder.
C27_EmptyPatternMatchesAll ==
    EmptyPatternGiven =>
        /\ built = "ok"
        /\ path_parameter_names = {}
        /\ matchCalled =>
               /\ matchResult.matched
               /\ DOMAIN matchResult.params = {}
               /\ matchResult.remaining = url

C27_Witness ==
    /\ EmptyPatternGiven
    /\ matchCalled
    /\ Len(url) = MaxUrlLen
    /\ matchResult.remaining = url

----------------------------------------------------------------------------
(* Properties of create_session, checked under SpecSession *)

\* the page guards have run and did not fail
PastGuards(s) == pc[s] \in {"apply_theme", "refresh", "returned"}

\* route resolution settled on a URL that is not under the base URL
ResolvedExternal(s) ==
    PastGuards(s) /\ active_page_url_absolute[s].host # base_url[s].host

FirstSyncSent(s) ==
    \E i \in 1..Len(sent[s]) : sent[s][i] = "updateComponentStates"

\* C9: when route resolution yields an external URL, the session's active
\* page chain and active page URL stay as they were before resolution.
C9_ExternalLeavesActivePage ==
    \A s \in Sessions :
        ResolvedExternal(s) =>
            /\ active_page_url[s] = initial_page_url[s]
            /\ active_page_instances[s] = NewSessionPageInstances

\* C10: the navigate-externally instruction is issued exactly when the
\* resolved URL is external, and then no first state synchronization is
\* sent.
C10_ExternalInsteadOfFirstSync ==
    \A s \in Sessions :
        PastGuards(s) =>
            /\ ("navigate_external" \in created_tasks[s]) <=> ResolvedExternal(s)
            /\ ResolvedExternal(s) => ~FirstSyncSent(s)

\* the page guards failed: NavigationFailed left create_session
GuardsFailed(s) == pc[s] = "NavigationFailed"

\* C11: the on_session_start handler has been called and has returned, the
\* user settings and the default attachments being attached by then, before
\* any page guard of the initial route resolution runs.
C11_HookBeforeGuards ==
    \A s \in Sessions :
        /\ hook_state[s] # "done" => ~guards_saw[s].evaluated
        /\ guards_saw[s].evaluated =>
               /\ guards_saw[s].hook = "done"
               /\ DefaultAttachments \subseteq guards_saw[s].attachments
               /\ HookAttachments \subseteq guards_saw[s].attachments

C11_Witness ==
    \E s \in Sessions : guards_saw[s].evaluated /\ hook_state[s] = "done"

\* C12: the first updateComponentStates is sent only after the initial route
\* was resolved, the session's active page chain and URL were set from that
\* resolution, and the theme was sent.
C12_FirstSyncLast ==
    \A s \in Sessions :
        \A i \in 1..Len(sent[s]) :
            sent[s][i] = "updateComponentStates" =>
                /\ guards_saw[s].evaluated
                /\ PastGuards(s)
                /\ active_page_url[s] = active_page_url_absolute[s]
                /\ active_page_instances[s] =
                       PageChainOf(active_page_url_absolute[s])
                /\ \E j \in 1..(i - 1) : sent[s][j] = "applyTheme"

C12_Witness ==
    \E s \in Sessions : FirstSyncSent(s) /\ pc[s] = "returned"

\* C13: when the page guards raise NavigationFailed, no session is returned,
\* no serve() task is created or registered, nothing is sent to the client,
\* no navigation task is created, and the session's active page chain and
\* URL are as the constructor left them.
C13_GuardFailureLeavesNothing ==
    \A s \in Sessions :
        GuardsFailed(s) =>
            /\ s \notin session_receive_tasks
            /\ serve_task[s] = "none"
            /\ sent[s] = <<>>
            /\ created_tasks[s] = {}
            /\ session_tasks[s] = {}
            /\ active_page_url[s] = initial_page_url[s]
            /\ active_page_instances[s] = NewSessionPageInstances

C13_Witness ==
    \E s \in Sessions :
        GuardsFailed(s) /\ guards_saw[s].evaluated /\ initial_page_url[s].path = "p"

\* C21: the task that replaces the browser's URL is created if and only if
\* the URL the page guards settled on differs from the URL the client asked
\* for.
C21_ReplaceUrlIffChanged ==
    \A s \in Sessions :
        PastGuards(s) =>
            ("replace_url" \in created_tasks[s]) <=>
                (active_page_url_absolute[s] # initial_page_url[s])

C21_Witness ==
    \E s, t \in Sessions :
        /\ PastGuards(s)
        /\ active_page_url_absolute[s] # initial_page_url[s]
        /\ "replace_url" \in created_tasks[s]
        /\ PastGuards(t)
        /\ active_page_url_absolute[t] = initial_page_url[t]
        /\ created_tasks[t] = {}

----------------------------------------------------------------------------
(* Properties of the handshake's handling, checked under SpecLocale *)

\* the session object of s was constructed
Constructed(s) == sess[s] # NoSession

\* the handshake create_session works with
ClientMessage(s) ==
    IF handshake[s].none THEN DefaultHandshake ELSE handshake[s]

ElementsOf(seq) == {seq[i] : i \in 1..Len(seq)}

\* the standard forms of those of the tags that can be parsed, in order
StandardForms(tags) ==
    LET parsable == SelectSeq(tags,
                        LAMBDA t : StandardizeTag(t).raised = "none")
    IN  [i \in 1..Len(parsable) |-> StandardizeTag(parsable[i]).value]

\* where x occurs first in seq
FirstIndex(seq, x) ==
    CHOOSE i \in 1..Len(seq) :
        seq[i] = x /\ \A j \in 1..(i - 1) : seq[j] # x

\* the text has the three numbers of the probe date
HasProbeNumbers(text) ==
    \A number \in {<<"3", "3">>, <<"1", "1">>, <<"2", "2">>} :
        ContainsString(text, number)

\* C14: whatever the language tags, separators, date format and timezone
\* name of the handshake, create_session constructs the session; it is left
\* by an exception only when the page guards fail.
C14_MalformedLocaleNeverFatal ==
    \A s \in Sessions :
        pc[s] # "idle" =>
            /\ Constructed(s)
            /\ pc[s] \in {"load_user_settings", "on_session_start",
                          "apply_theme", "refresh", "returned",
                          "NavigationFailed"}
            /\ GuardsFailed(s) => guards_saw[s].evaluated

C14_Witness ==
    \E s \in Sessions :
        /\ Constructed(s)
        /\ pc[s] = "load_user_settings"
        /\ handshake[s].preferred_languages = <<"!">>
        /\ handshake[s].decimal_separator = <<>>
        /\ handshake[s].thousands_separator = <<"1", "2">>
        /\ formatted_date[s].raised = "ValueError"
        /\ handshake[s].timezone = "Mars/Olympus"

\* C15: the session's preferred languages are never empty, have no
\* duplicates, are the standard forms of the client's parsable tags in the
\* order of their first occurrence, and are exactly ["en-US"] when the
\* client sent no parsable tag.
C15_LanguagesNormalized ==
    \A s \in Sessions :
        Constructed(s) =>
            LET languages == sess[s].preferred_languages
                forms == StandardForms(ClientMessage(s).preferred_languages)
            IN  /\ Len(languages) > 0
                /\ \A i, j \in 1..Len(languages) :
                       languages[i] = languages[j] => i = j
                /\ forms = <<>> => languages = <<"en-US">>
                /\ forms # <<>> =>
                       /\ ElementsOf(languages) = ElementsOf(forms)
                       /\ \A i, j \in 1..Len(languages) :
                              i < j => FirstIndex(forms, languages[i])
                                           < FirstIndex(forms, languages[j])

C15_Witness ==
    \E s \in Sessions :
        /\ Constructed(s)
        /\ handshake[s].preferred_languages = <<"en_us", "en-US">>
        /\ sess[s].preferred_languages = <<"en-US">>

\* C16: normalizing the session's preferred languages once more gives the
\* same list.
C16_NormalizationIdempotent ==
    \A s \in Sessions :
        Constructed(s) =>
            PreferredLanguages(sess[s].preferred_languages)
                = Returned(sess[s].preferred_languages)

C16_Witness ==
    \E s \in Sessions :
        /\ Constructed(s)
        /\ handshake[s].preferred_languages = <<"!", "en_us">>
        /\ sess[s].preferred_languages # handshake[s].preferred_languages

\* C17: the session's decimal separator has exactly one character and its
\* thousands separator at most one; a client value of that length is kept,
\* any other decimal separator becomes "." and any other thousands
\* separator the empty string.
C17_SeparatorsValidated ==
    \A s \in Sessions :
        Constructed(s) =>
            LET msg == ClientMessage(s)
            IN  /\ Len(sess[s].decimal_separator) = 1
                /\ Len(sess[s].thousands_separator) \in {0, 1}
                /\ sess[s].decimal_separator =
                       IF Len(msg.decimal_separator) = 1
                       THEN msg.decimal_separator ELSE <<".">>
                /\ sess[s].thousands_separator =
                       IF Len(msg.thousands_separator) \in {0, 1}
                       THEN msg.thousands_separator ELSE <<>>

C17_Witness ==
    \E s \in Sessions :
        /\ Constructed(s)
        /\ handshake[s].decimal_separator = <<"1", "2">>
        /\ sess[s].decimal_separator = <<".">>
        /\ handshake[s].thousands_separator = <<",">>
        /\ sess[s].thousands_separator = <<",">>

\* C18: the client's date format is kept if and only if formatting the date
\* 3333-11-22 with it succeeded and the output has "33", "11" and "22";
\* otherwise the session's date format is "%Y-%m-%d". The session's date
\* format always formats that date to a text that has the three numbers.
C18_DateFormatValidated ==
    \A s \in Sessions :
        Constructed(s) =>
            LET msg == ClientMessage(s)
                passed == /\ formatted_date[s].raised = "none"
                          /\ HasProbeNumbers(formatted_date[s].value)
            IN  /\ sess[s].date_format_string =
                       IF passed THEN msg.date_format_string
                       ELSE IsoDateFormat
                /\ LET again == Strftime(sess[s].date_format_string,
                                         strict_strftime)
                   IN  /\ again.raised = "none"
                       /\ HasProbeNumbers(again.value)

C18_Witness ==
    \E s \in Sessions :
        /\ Constructed(s)
        /\ handshake[s].date_format_string =
               <<"%", "d", "/", "%", "m", "/", "%", "Y">>
        /\ formatted_date[s].value =
               <<"2", "2", "/", "1", "1", "/", "3", "3", "3", "3">>
        /\ sess[s].date_format_string = handshake[s].date_format_string

\* C19: the session's timezone is the zone the client named when there is
\* such a zone, and UTC otherwise.
C19_TimezoneOrUtc ==
    \A s \in Sessions :
        Constructed(s) =>
            LET named == PytzTimezone(ClientMessage(s).timezone)
            IN  /\ sess[s].timezone \in {"UTC", "Europe/Berlin"}
                /\ sess[s].timezone =
                       IF named.raised = "none" THEN named.value ELSE "UTC"

C19_Witness ==
    \E s \in Sessions :
        /\ Constructed(s)
        /\ handshake[s].timezone = "Mars/Olympus"
        /\ sess[s].timezone = "UTC"

----------------------------------------------------------------------------
(* Properties of the theme, checked under SpecTheme *)

ThemeSent(s) == \E i \in 1..Len(sent[s]) : sent[s][i] = "applyTheme"

\* C20: with a (light, dark) pair the session gets the light theme when the
\* client prefers a light theme and the dark theme otherwise; with a single
\* theme it gets that theme; and the theme sent to the client before the
\* first updateComponentStates is the session's theme.
C20_ThemeResolved ==
    \A s \in Sessions :
        Constructed(s) =>
            /\ app_theme = PairTheme =>
                   sess[s].theme =
                       IF ClientMessage(s).prefers_light_theme
                       THEN "light" ELSE "dark"
            /\ app_theme = SingleTheme => sess[s].theme = "brand"
            /\ ThemeSent(s) => applied_theme[s] = sess[s].theme
            /\ FirstSyncSent(s) => ThemeSent(s)

C20_Witness ==
    \E s \in Sessions :
        /\ app_theme = PairTheme
        /\ ~handshake[s].prefers_light_theme
        /\ FirstSyncSent(s)
        /\ applied_theme[s] = "dark"

----------------------------------------------------------------------------
(* Properties of the tasks of a session *)

\* C25: a task create_session made to replace the browser's URL or to
\* navigate away has sent its instruction before the first
\* updateComponentStates is sent and before the serve() task is created.
\* Checked under SpecSession.
C25_NavigationBeforeFirstSync ==
    \A s \in Sessions :
        /\ \A k \in created_tasks[s] :
               \A i \in 1..Len(sent[s]) :
                   sent[s][i] = "updateComponentStates" =>
                       \E j \in 1..(i - 1) : sent[s][j] = k
        /\ serve_task[s] # "none" => session_tasks[s] = {}

\* Session.close() was called on s
CloseCalled(s) == closed[s] # "open"

\* the step is a call of Session.close() on s
ClosingStep(s) == closed[s] = "open" /\ closed'[s] # "open"

\* C22: closing a session whose create_session returned removes that
\* session from the registry and cancels that session's serve() task; the
\* registry's other entries and their tasks are as before. Checked under
\* SpecClose, as are the claims that follow.
C22_CloseRemovesOwnTask ==
    [][\A s \in Sessions :
           (ClosingStep(s) /\ pc[s] = "returned") =>
               /\ s \in session_receive_tasks
               /\ closed'[s] = "closed"
               /\ session_receive_tasks' = session_receive_tasks \ {s}
               /\ serve_task'[s] = "cancelled"
               /\ \A t \in Sessions \ {s} : serve_task'[t] = serve_task[t]]_vars

C22_Witness ==
    \E s, t \in Sessions :
        /\ closed[s] = "closed"
        /\ serve_task[s] = "cancelled"
        /\ s \notin session_receive_tasks
        /\ closed[t] = "open"
        /\ t \in session_receive_tasks
        /\ serve_task[t] = "running"

\* C23: once a session is closed, no keep_alive task that
\* host_asset_with_timeout made for it is pending.
C23_NoKeepAliveAfterClose ==
    \A s \in Sessions : closed[s] = "closed" => keep_alive[s] # "pending"

\* C24: closing a session never fails, also not while its create_session is
\* suspended, and the registry never has the task of a session that was
\* closed.
C24_NoDanglingListener ==
    \A s \in Sessions :
        /\ closed[s] # "KeyError"
        /\ CloseCalled(s) => s \notin session_receive_tasks

\* C26: the serve() task of a session is created and registered only after
\* its first updateComponentStates was sent, and the keys of the registry
\* are exactly the sessions whose create_session returned and that were not
\* closed.
C26_RegistryIsLiveSessions ==
    /\ \A s \in Sessions : serve_task[s] # "none" => FirstSyncSent(s)
    /\ session_receive_tasks =
           {s \in Sessions : pc[s] = "returned" /\ ~CloseCalled(s)}

----------------------------------------------------------------------------
(* Properties of the dev tools, checked under SpecDevTools *)

IsPrefixOf(a, b) == Len(a) <= Len(b) /\ SubSeq(b, 1, Len(a)) = a

\* the attribute of the target that the last handler call was about has the
\* value of that call
LastCallAssigned ==
    LET call == handler_calls[Len(handler_calls)]
    IN  IF call.handler = "on_grow_change"
        THEN target_component.grow_x = call.value.flag
        ELSE target_component.min_width = call.value.number

\* C28: _update_target_attribute assigns the attribute, then refreshes the
\* session, and only then updates the explanations; when the explainer
\* raises KeyError the stored explainer becomes None and the update does not
\* fail.
C28_AssignRefreshExplain ==
    /\ IsPrefixOf(dev_log, <<"setattr", "refresh", "explain">>)
    /\ dev_log # <<>> => LastCallAssigned
    /\ dev_pc = "awaiting_1" => dev_log = <<"setattr">>
    /\ dev_pc = "awaiting_2" => dev_log = <<"setattr", "refresh">>
    /\ dev_pc \in {"idle", "awaiting_1", "awaiting_2"}
    /\ (dev_pc = "idle" /\ create_new_raised = "KeyError") =>
           layout_explainer = "None"

C28_Witness ==
    /\ dev_log = <<"setattr", "refresh", "explain">>
    /\ create_new_raised = "KeyError"
    /\ layout_explainer = "None"
    /\ dev_pc = "idle"
    /\ target_component.min_width = MaxMinValue

\* the changes of one kind that the controls reported
EventsOfKind(kind) == SelectSeq(ui_events, LAMBDA ev : ev.kind = kind)

CallsOf(handler) == SelectSeq(handler_calls, LAMBDA c : c.handler = handler)

\* every reported change of the kind led to one call of the handler, with
\* the value of the change
EachEventCalled(kind, handler) ==
    LET events == EventsOfKind(kind)
        calls == CallsOf(handler)
    IN  /\ Len(calls) = Len(events)
        /\ \A i \in 1..Len(events) : calls[i].value = events[i].value

\* C29: whenever the grow switch reports a change, the component's grow is
\* the switch's new state and on_grow_change was called with it, as
\* min_value is set and on_min_change is called for a change of the
\* min-value input.
C29_GrowSwitchSetsGrow ==
    /\ EachEventCalled("number", "on_min_change")
    /\ EachEventCalled("switch", "on_grow_change")
    /\ EventsOfKind("switch") # <<>> => size_controls.grow = switch_is_on

====
